---- MODULE Spec2Model ----
(***************************************************************************)
(* Model of runpod/youtube-worker/handler.py: the transcript-acquisition   *)
(* pipeline (captions first, audio + ASR as the fallback).                 *)
(*                                                                         *)
(* Python strings are sequences of one-character strings, so that strip,   *)
(* split, the regular expressions and the glob patterns are computed the   *)
(* way the code computes them.  Python's None / a missing dict key is the  *)
(* empty sequence <<>> and a present value v is <<v>>.                     *)
(***************************************************************************)
EXTENDS Integers, Sequences, FiniteSets, TLC

(***************************************************************************)
(* Strings                                                                 *)
(***************************************************************************)
NL == "\n"
SP == " "

\* str.isspace / the regex class \s, on the characters the model uses
IsSpace(c) == c \in {" ", "\t", "\n", "\r", "\f"}

\* the regex class \d
IsDigit(c) == c \in {"0", "1", "2", "3", "4", "5", "6", "7", "8", "9"}

\* s[i:] of Python, with i a 1-based position
From(s, i) == SubSeq(s, i, Len(s))

\* s.startswith(p, i-1): p occurs in s at position i
StartsWithAt(s, i, p) ==
    /\ i >= 1
    /\ i + Len(p) - 1 <= Len(s)
    /\ \A k \in 1..Len(p) : s[i + k - 1] = p[k]

EndsWith(s, p) == Len(p) <= Len(s) /\ StartsWithAt(s, Len(s) - Len(p) + 1, p)

\* p in s
Contains(s, p) == \E i \in 1..(Len(s) + 1) : StartsWithAt(s, i, p)

\* least position >= i at which p occurs in s, 0 when there is none
Find(s, p, i) ==
    LET hits == {k \in i..Len(s) : StartsWithAt(s, k, p)}
    IN  IF hits = {} THEN 0 ELSE CHOOSE k \in hits : \A h \in hits : k <= h

RECURSIVE lstrip(_)
lstrip(s) == IF s # <<>> /\ IsSpace(Head(s)) THEN lstrip(Tail(s)) ELSE s

RECURSIVE rstrip(_)
rstrip(s) ==
    IF s # <<>> /\ IsSpace(s[Len(s)]) THEN rstrip(SubSeq(s, 1, Len(s) - 1)) ELSE s

\* str.strip()
strip(s) == rstrip(lstrip(s))

\* sep.join(parts)
RECURSIVE join(_, _)
join(sep, parts) ==
    IF parts = <<>> THEN <<>>
    ELSE IF Len(parts) = 1 THEN parts[1]
    ELSE parts[1] \o sep \o join(sep, Tail(parts))

\* s.split("\n"): the pieces between newlines, empty pieces kept
RECURSIVE split(_)
split(s) ==
    LET j == Find(s, <<NL>>, 1)
    IN  IF j = 0 THEN <<s>> ELSE <<SubSeq(s, 1, j - 1)>> \o split(From(s, j + 1))

\* re.sub(r"\s+", " ", s)
RECURSIVE CollapseWs(_)
CollapseWs(s) ==
    IF s = <<>> THEN <<>>
    ELSE IF IsSpace(Head(s)) THEN <<SP>> \o CollapseWs(lstrip(s))
    ELSE <<Head(s)>> \o CollapseWs(Tail(s))

\* _clean_text with the strip() left out
_clean_textUnstripped(s) == CollapseWs(s)

\* handler.py:11  (s or "") is s itself for every string
_clean_text(s) == CollapseWs(strip(s))

(***************************************************************************)
(* _parse_vtt_to_text                                                      *)
(***************************************************************************)
WEBVTT == <<"W", "E", "B", "V", "T", "T">>
NOTE == <<"N", "O", "T", "E">>
ARROW == <<"-", "-", ">">>
BLANK == <<NL, NL>>

\* vtt.replace("\r\n", "\n")
RECURSIVE ReplaceCRLF(_)
ReplaceCRLF(s) ==
    IF s = <<>> THEN <<>>
    ELSE IF StartsWithAt(s, 1, <<"\r", NL>>) THEN <<NL>> \o ReplaceCRLF(From(s, 3))
    ELSE <<Head(s)>> \o ReplaceCRLF(Tail(s))

\* re.sub(r"^WEBVTT[\s\S]*?\n\n", "", t): ^ is the start of the string only, and
\* the lazy body stops at the first blank line after the signature.
DropHeader(t) ==
    IF StartsWithAt(t, 1, WEBVTT) /\ Find(t, BLANK, Len(WEBVTT) + 1) # 0
    THEN From(t, Find(t, BLANK, Len(WEBVTT) + 1) + 2)
    ELSE t

\* re.sub(r"^NOTE[\s\S]*?\n\n", "", t, flags=re.MULTILINE), scanning from
\* position i: ^ is the start of the string or the position after a newline;
\* a match runs to the first "\n\n" after the keyword, and the scan goes on
\* behind it.  Without a later "\n\n" nothing matches.
RECURSIVE DropNotesFrom(_, _)
DropNotesFrom(t, i) ==
    IF i > Len(t) THEN <<>>
    ELSE IF /\ (i = 1 \/ t[i - 1] = NL)
            /\ StartsWithAt(t, i, NOTE)
            /\ Find(t, BLANK, i + Len(NOTE)) # 0
         THEN DropNotesFrom(t, Find(t, BLANK, i + Len(NOTE)) + 2)
         ELSE <<t[i]>> \o DropNotesFrom(t, i + 1)

DropNotes(t) == DropNotesFrom(t, 1)

\* re.fullmatch(r"\d+", line)
AllDigits(line) == line # <<>> /\ \A k \in 1..Len(line) : IsDigit(line[k])

\* re.sub(r"<[^>]+>", "", line): a tag is "<", at least one character that is
\* not ">", and the first ">" after them.
RECURSIVE StripTags(_)
StripTags(line) ==
    IF line = <<>> THEN <<>>
    ELSE IF /\ Head(line) = "<"
            /\ Len(line) >= 3
            /\ line[2] # ">"
            /\ Find(line, <<">">>, 3) # 0
         THEN StripTags(From(line, Find(line, <<">">>, 3) + 1))
         ELSE <<Head(line)>> \o StripTags(Tail(line))

\* the body of the loop of handler.py:23-36 for the lines from k on
RECURSIVE OutLines(_, _)
OutLines(lines, k) ==
    IF k > Len(lines) THEN <<>>
    ELSE LET line == strip(lines[k])
             rest == OutLines(lines, k + 1)
         IN  IF line = <<>> THEN rest
             ELSE IF Contains(line, ARROW) THEN rest
             ELSE IF AllDigits(line) THEN rest
             ELSE IF StripTags(line) # <<>> THEN <<StripTags(line)>> \o rest
             ELSE rest

_parse_vtt_to_text(vtt) ==
    _clean_text(join(<<SP>>, OutLines(split(DropNotes(DropHeader(ReplaceCRLF(vtt)))), 1)))

(***************************************************************************)
(* The host: one filesystem shared by all requests, and the names that     *)
(* tempfile can hand out.                                                  *)
(***************************************************************************)
NumDirs == 2
NumReq == 2
MaxSegs == 2

Reqs == 1..NumReq

DirChar == <<"a", "b", "c", "d", "e", "f", "g", "h">>

\* the paths tempfile.mkdtemp draws from: <tmp>/<random name>
TempNames == {<<"/", "t", "/", DirChar[i]>> : i \in 1..NumDirs}

\* mkdtemp handing out a name whether or not it is taken
mkdtempAny(existing) == TempNames

\* tempfile.TemporaryDirectory(): mkdtemp creates a directory that did not
\* exist, retrying on a name that is taken
mkdtemp(existing) == TempNames \ existing

\* os.path.join(workdir, name)
PathJoin(workdir, name) == workdir \o <<"/">> \o name

\* A file is [dir, name, data]; a directory holds one file per name.
FilesIn(fs, d) == {f \in fs : f.dir = d}

\* the external tool writes the files w (a set of [name, data]) into d
WriteFiles(fs, d, w) ==
    {f \in fs : ~(f.dir = d /\ \E n \in w : n.name = f.name)}
        \cup {[dir |-> d, name |-> n.name, data |-> n.data] : n \in w}

\* shutil.rmtree(d) of TemporaryDirectory.__exit__ / cleanup()
RemoveTree(fs, d) == {f \in fs : f.dir # d}

\* fnmatch of a file name against "<pre>*<suf>"; glob's "*" never matches a
\* leading dot
Matches(name, pre, suf) ==
    /\ Len(name) >= Len(pre) + Len(suf)
    /\ StartsWithAt(name, 1, pre)
    /\ EndsWith(name, suf)
    /\ (pre = <<>> => (name # <<>> /\ name[1] # "."))

\* glob.glob(os.path.join(d, "<pre>*<suf>")) as the set of paths found
Glob(fs, d, pre, suf) ==
    {PathJoin(d, f.name) : f \in {g \in FilesIn(fs, d) : Matches(g.name, pre, suf)}}

\* the orders in which the filesystem may list a set of paths
RECURSIVE Listings(_)
Listings(S) ==
    IF S = {} THEN {<<>>}
    ELSE UNION {{<<p>> \o l : l \in Listings(S \ {p})} : p \in S}

SUBS_PRE == <<"s", "u", "b", "s", ".">>
VTT_SUF == <<".", "v", "t", "t">>
AUDIO_PRE == <<"a", "u", "d", "i", "o", ".">>

\* open(path).read(); "" stands for a file that is not there
ReadFile(fs, path) ==
    LET hit == {f \in fs : PathJoin(f.dir, f.name) = path}
    IN  IF hit = {} THEN <<>> ELSE (CHOOSE f \in hit : TRUE).data

\* FindVtts without the broadened scan
FindVttsStrict(fs, workdir) == Glob(fs, workdir, SUBS_PRE, VTT_SUF)

\* handler.py:95-97: the candidates, by the strict pattern when it matches
\* anything, by the broad one otherwise; glob.glob returns them in the order
\* the filesystem lists them, which is any order
FindVtts(fs, workdir) ==
    IF Glob(fs, workdir, SUBS_PRE, VTT_SUF) # {}
    THEN Glob(fs, workdir, SUBS_PRE, VTT_SUF)
    ELSE Glob(fs, workdir, <<>>, VTT_SUF)

\* handler.py:102-106: the first candidate with ".<lang>." in its path, else
\* the first candidate; None (<<>>) for no candidate
RECURSIVE FirstWithLang(_, _)
FirstWithLang(vtts, lang) ==
    IF vtts = <<>> THEN <<>>
    ELSE IF Contains(Head(vtts), <<".">> \o lang \o <<".">>) THEN <<Head(vtts)>>
    ELSE FirstWithLang(Tail(vtts), lang)

\* SelectVtt without the preference for the requested language
SelectFirst(vtts, lang) == IF vtts = <<>> THEN <<>> ELSE <<vtts[1]>>

SelectVtt(vtts, lang) ==
    IF vtts = <<>> THEN <<>>
    ELSE IF FirstWithLang(vtts, lang) # <<>> THEN FirstWithLang(vtts, lang)
    ELSE <<vtts[1]>>

\* handler.py:126: the audio candidates
FindAudio(fs, workdir) == Glob(fs, workdir, AUDIO_PRE, <<>>)

\* handler.py:143-148: non-empty fragments joined by spaces, normalized
NonEmpty(parts) == SelectSeq(parts, LAMBDA p : p # <<>>)

\* _transcribe_with_faster_whisper joining the fragments without the spaces
_transcribeUnspaced(segments) == _clean_text(join(<<>>, NonEmpty(segments)))

_transcribe_with_faster_whisper(segments) ==
    _clean_text(join(<<SP>>, NonEmpty(segments)))

(***************************************************************************)
(* The request                                                             *)
(***************************************************************************)
EN == <<"e", "n">>

\* x or default, for an optional string x
OrDefault(x, default) == IF x = <<>> \/ x[1] = <<>> THEN default ELSE x[1]

NoInput == [youtubeUrl |-> <<>>, lang |-> <<>>]

\* handler.py:152  inp = (event or {}).get("input") or {}
InputOf(ev) == IF ev = <<>> \/ ev[1].input = <<>> THEN NoInput ELSE ev[1].input[1]

\* UrlOf with the strip() left out
UrlOfUnstripped(ev) == OrDefault(InputOf(ev).youtubeUrl, <<>>)

\* handler.py:153
UrlOf(ev) == strip(OrDefault(InputOf(ev).youtubeUrl, <<>>))

\* LangOf without the second default: a blank hint stays blank
LangOfBlank(ev) == strip(OrDefault(InputOf(ev).lang, EN))

\* handler.py:154
LangOf(ev) ==
    IF strip(OrDefault(InputOf(ev).lang, EN)) = <<>> THEN EN
    ELSE strip(OrDefault(InputOf(ev).lang, EN))

\* the dicts handler returns
ErrorResult(msg) == [error |-> msg]
TranscriptResult(text, method, l) == [transcript |-> text, method |-> method, lang |-> l]

MISSING_URL == "Missing input.youtubeUrl"
NO_AUDIO == "Audio download produced no file"
ASR_EMPTY == "ASR returned empty transcript"

\* Truthy with the empty string counted as text
TruthyAny(t) == TRUE

\* handler.py:165 and 171: truth of a string
Truthy(text) == text # <<>>

\* subprocess.run(check=True, timeout=...): what _run raises for the way the
\* external program ended
RunRaises(status) ==
    CASE status = "nonzero" -> [exc |-> "CalledProcessError", msg |-> ""]
      [] status = "timeout" -> [exc |-> "TimeoutExpired", msg |-> ""]
      [] OTHER -> [exc |-> "OSError", msg |-> ""]

(***************************************************************************)
(* State                                                                   *)
(***************************************************************************)
VARIABLES
    dirs,          \* the directories that exist under the temp root
    files,         \* the files that exist, as [dir, name, data]
    pc,            \* where each invocation of handler stands
    event,         \* the event it was called with
    youtube_url,   \* handler's locals
    lang,
    workdir,
    vtt_path,
    audio_path,
    text,
    calls,         \* the collaborator calls it made: starts and completions
    listed,        \* the lists its globs returned
    ret,           \* <<dict>> once handler has returned
    raised         \* <<exception>> once an exception has left handler

vars == <<dirs, files, pc, event, youtube_url, lang, workdir, vtt_path, audio_path,
          text, calls, listed, ret, raised>>

Started(op) == [op |-> op, ev |-> "start", status |-> "none", wrote |-> {}, segs |-> <<>>]
Ended(op, status, wrote, segs) ==
    [op |-> op, ev |-> "end", status |-> status, wrote |-> wrote, segs |-> segs]

Init ==
    /\ dirs = {}
    /\ files = {}
    /\ pc = [r \in Reqs |-> "idle"]
    /\ event = [r \in Reqs |-> <<>>]
    /\ youtube_url = [r \in Reqs |-> <<>>]
    /\ lang = [r \in Reqs |-> <<>>]
    /\ workdir = [r \in Reqs |-> <<>>]
    /\ vtt_path = [r \in Reqs |-> <<>>]
    /\ audio_path = [r \in Reqs |-> <<>>]
    /\ text = [r \in Reqs |-> <<>>]
    /\ calls = [r \in Reqs |-> <<>>]
    /\ listed = [r \in Reqs |-> <<>>]
    /\ ret = [r \in Reqs |-> <<>>]
    /\ raised = [r \in Reqs |-> <<>>]

locals == <<youtube_url, lang, workdir, vtt_path, audio_path, text>>

\* leaving the with block of handler.py:159, by return or by exception:
\* TemporaryDirectory.__exit__ removes the directory and all it holds
LeaveWith(r) ==
    /\ dirs' = dirs \ {workdir[r][1]}
    /\ files' = RemoveTree(files, workdir[r][1])

\* return value from inside the with block
ReturnFromWith(r, value) ==
    /\ LeaveWith(r)
    /\ ret' = [ret EXCEPT ![r] = <<value>>]
    /\ pc' = [pc EXCEPT ![r] = "done"]
    /\ UNCHANGED <<event, locals, raised>>

\* RaiseFromWith without the cleanup of the with block
RaiseNoCleanup(r, e) ==
    /\ raised' = [raised EXCEPT ![r] = <<e>>]
    /\ pc' = [pc EXCEPT ![r] = "done"]
    /\ UNCHANGED <<dirs, files, event, locals, ret>>

\* an exception inside the with block that nothing in handler catches
RaiseFromWith(r, e) ==
    /\ LeaveWith(r)
    /\ raised' = [raised EXCEPT ![r] = <<e>>]
    /\ pc' = [pc EXCEPT ![r] = "done"]
    /\ UNCHANGED <<event, locals, ret>>

\* _run starts the external program (subprocess.run blocks until it is over)
StartCall(r, op, running) ==
    /\ pc' = [pc EXCEPT ![r] = running]
    /\ calls' = [calls EXCEPT ![r] = Append(@, Started(op))]
    /\ UNCHANGED <<dirs, files, event, locals, listed, ret, raised>>

(***************************************************************************)
(* handler, step by step.  B gives the events and the collaborator         *)
(* behaviours a specification draws from.                                  *)
(***************************************************************************)

\* handler.py:152-157 with a blank URL
HandlerMissingUrl(r, B) ==
    /\ pc[r] = "idle"
    /\ \E ev \in B.events :
        /\ UrlOf(ev) = <<>>
        /\ event' = [event EXCEPT ![r] = ev]
        /\ lang' = [lang EXCEPT ![r] = LangOf(ev)]
    /\ ret' = [ret EXCEPT ![r] = <<ErrorResult(MISSING_URL)>>]
    /\ pc' = [pc EXCEPT ![r] = "done"]
    /\ UNCHANGED <<dirs, files, youtube_url, workdir, vtt_path, audio_path, text,
                   calls, listed, raised>>

\* handler.py:152-159 with a URL: the working directory is created
HandlerEnter(r, B) ==
    /\ pc[r] = "idle"
    /\ \E ev \in B.events :
        /\ UrlOf(ev) # <<>>
        /\ event' = [event EXCEPT ![r] = ev]
        /\ youtube_url' = [youtube_url EXCEPT ![r] = UrlOf(ev)]
        /\ lang' = [lang EXCEPT ![r] = LangOf(ev)]
    /\ \E d \in mkdtemp(dirs) :
        /\ dirs' = dirs \cup {d}
        /\ workdir' = [workdir EXCEPT ![r] = <<d>>]
    /\ pc' = [pc EXCEPT ![r] = "manual"]
    /\ UNCHANGED <<files, vtt_path, audio_path, text, calls, listed, ret, raised>>

\* handler.py:51-68: yt-dlp --write-subs is started
StartManual(r) ==
    /\ pc[r] = "manual"
    /\ StartCall(r, "manual", "manual_run")

\* a caption attempt is over: the tool has exited, was killed at the timeout
\* or could not be run, having written what it wrote
CaptionCallOver(r, statuses, writes, running, op) ==
    /\ pc[r] = running
    /\ \E st \in statuses, w \in writes :
        /\ files' = WriteFiles(files, workdir[r][1], w)
        /\ calls' = [calls EXCEPT ![r] = Append(@, Ended(op, st, w, <<>>))]
    /\ UNCHANGED <<dirs, event, locals, listed, ret, raised>>

\* EndManual without the except clause: the failure leaves handler
EndManualRaises(r, B) ==
    /\ pc[r] = "manual_run"
    /\ \E st \in B.capStatus, w \in B.manualWrites :
        /\ calls' = [calls EXCEPT ![r] = Append(@, Ended("manual", st, w, <<>>))]
        /\ IF st = "ok"
           THEN /\ files' = WriteFiles(files, workdir[r][1], w)
                /\ pc' = [pc EXCEPT ![r] = "auto"]
                /\ UNCHANGED <<dirs, event, locals, ret, raised>>
           ELSE RaiseFromWith(r, RunRaises(st))
    /\ UNCHANGED listed

\* EndManual trying the manual captions again after a failure
EndManualRetry(r, B) ==
    /\ CaptionCallOver(r, B.capStatus, B.manualWrites, "manual_run", "manual")
    /\ pc' = [pc EXCEPT ![r] = IF calls'[r][Len(calls'[r])].status = "ok" THEN "auto" ELSE "manual"]

\* handler.py:51-70: except Exception: pass
EndManual(r, B) ==
    /\ CaptionCallOver(r, B.capStatus, B.manualWrites, "manual_run", "manual")
    /\ pc' = [pc EXCEPT ![r] = "auto"]

\* handler.py:73-90: yt-dlp --write-auto-subs is started
StartAuto(r) ==
    /\ pc[r] = "auto"
    /\ StartCall(r, "auto", "auto_run")

\* handler.py:73-92: except Exception: pass
EndAuto(r, B) ==
    /\ CaptionCallOver(r, B.capStatus, B.autoWrites, "auto_run", "auto")
    /\ pc' = [pc EXCEPT ![r] = "scan"]

\* handler.py:94-106 and 161: the scan of the working directory
ScanSubs(r) ==
    /\ pc[r] = "scan"
    /\ \E vtts \in Listings(FindVtts(files, workdir[r][1])) :
        /\ vtt_path' = [vtt_path EXCEPT ![r] = SelectVtt(vtts, lang[r])]
        /\ listed' = [listed EXCEPT ![r] = Append(@, vtts)]
    /\ pc' = [pc EXCEPT ![r] = "captions"]
    /\ UNCHANGED <<dirs, files, event, youtube_url, lang, workdir, audio_path, text,
                   calls, ret, raised>>

\* handler.py:162-164: the caption file is read and parsed
ReadCaptions(r) ==
    /\ pc[r] = "captions"
    /\ vtt_path[r] # <<>>
    /\ text' = [text EXCEPT ![r] = <<_parse_vtt_to_text(ReadFile(files, vtt_path[r][1]))>>]
    /\ pc' = [pc EXCEPT ![r] = "check"]
    /\ UNCHANGED <<dirs, files, event, youtube_url, lang, workdir, vtt_path, audio_path,
                   calls, listed, ret, raised>>

\* handler.py:165-166: captions with text end the request
ReturnSubtitles(r) ==
    /\ pc[r] = "check"
    /\ Truthy(text[r][1])
    /\ ReturnFromWith(r, TranscriptResult(text[r][1], "subtitles", lang[r]))
    /\ UNCHANGED <<calls, listed>>

\* FallBackToASR with the test of the text left out
FallBackAlways(r) ==
    /\ \/ pc[r] = "captions" /\ vtt_path[r] = <<>>
       \/ pc[r] = "check"
    /\ pc' = [pc EXCEPT ![r] = "audio"]
    /\ UNCHANGED <<dirs, files, event, locals, calls, listed, ret, raised>>

\* FallBackToASR giving up instead of going on to the audio
FallBackGivesUp(r) ==
    /\ \/ pc[r] = "captions" /\ vtt_path[r] = <<>>
       \/ pc[r] = "check" /\ ~Truthy(text[r][1])
    /\ ReturnFromWith(r, ErrorResult("No captions"))
    /\ UNCHANGED <<calls, listed>>

\* handler.py:162, 165, 168: no caption file, or one without text
FallBackToASR(r) ==
    /\ \/ pc[r] = "captions" /\ vtt_path[r] = <<>>
       \/ pc[r] = "check" /\ ~Truthy(text[r][1])
    /\ pc' = [pc EXCEPT ![r] = "audio"]
    /\ UNCHANGED <<dirs, files, event, locals, calls, listed, ret, raised>>

\* handler.py:109-124: yt-dlp -f bestaudio is started
StartAudio(r) ==
    /\ pc[r] = "audio"
    /\ StartCall(r, "audio", "audio_run")

\* handler.py:112-124: the tool fails; _run raises and nothing catches it
AudioRunFails(r, B) ==
    /\ pc[r] = "audio_run"
    /\ \E st \in B.audStatus \ {"ok"}, w \in B.audPartial :
        /\ calls' = [calls EXCEPT ![r] = Append(@, Ended("audio", st, w, <<>>))]
        /\ RaiseFromWith(r, RunRaises(st))
    /\ UNCHANGED listed

\* handler.py:112-124: the tool exits with status 0
AudioRunEnds(r, B) ==
    /\ pc[r] = "audio_run"
    /\ "ok" \in B.audStatus
    /\ \E w \in B.audWrites :
        /\ files' = WriteFiles(files, workdir[r][1], w)
        /\ calls' = [calls EXCEPT ![r] = Append(@, Ended("audio", "ok", w, <<>>))]
    /\ pc' = [pc EXCEPT ![r] = "audio_scan"]
    /\ UNCHANGED <<dirs, event, locals, listed, ret, raised>>

\* handler.py:126-128: no audio file; the RuntimeError leaves handler
AudioNoFile(r) ==
    /\ pc[r] = "audio_scan"
    /\ FindAudio(files, workdir[r][1]) = {}
    /\ RaiseFromWith(r, [exc |-> "RuntimeError", msg |-> NO_AUDIO])
    /\ UNCHANGED <<calls, listed>>

\* handler.py:126-129 and 169: candidates[0]
AudioFound(r) ==
    /\ pc[r] = "audio_scan"
    /\ FindAudio(files, workdir[r][1]) # {}
    /\ \E candidates \in Listings(FindAudio(files, workdir[r][1])) :
        /\ audio_path' = [audio_path EXCEPT ![r] = <<candidates[1]>>]
        /\ listed' = [listed EXCEPT ![r] = Append(@, candidates)]
    /\ pc' = [pc EXCEPT ![r] = "asr"]
    /\ UNCHANGED <<dirs, files, event, youtube_url, lang, workdir, vtt_path, text,
                   calls, ret, raised>>

\* handler.py:132-141 and 170: the model is loaded and transcribe is called
StartASR(r) ==
    /\ pc[r] = "asr"
    /\ StartCall(r, "asr", "asr_run")

\* handler.py:134-146: the import, the model or the segment generator raises
ASRFails(r, B) ==
    /\ pc[r] = "asr_run"
    /\ B.asrMayFail
    /\ calls' = [calls EXCEPT ![r] = Append(@, Ended("asr", "fault", {}, <<>>))]
    /\ RaiseFromWith(r, [exc |-> "Exception", msg |-> ""])
    /\ UNCHANGED listed

\* handler.py:141-148 and 170: the segments are consumed
ASREnds(r, B) ==
    /\ pc[r] = "asr_run"
    /\ \E segs \in B.segments :
        /\ text' = [text EXCEPT ![r] = <<_transcribe_with_faster_whisper(segs)>>]
        /\ calls' = [calls EXCEPT ![r] = Append(@, Ended("asr", "ok", {}, segs))]
    /\ pc' = [pc EXCEPT ![r] = "asr_check"]
    /\ UNCHANGED <<dirs, files, event, youtube_url, lang, workdir, vtt_path, audio_path,
                   listed, ret, raised>>

\* handler.py:171-172
ASREmpty(r) ==
    /\ pc[r] = "asr_check"
    /\ ~Truthy(text[r][1])
    /\ ReturnFromWith(r, ErrorResult(ASR_EMPTY))
    /\ UNCHANGED <<calls, listed>>

\* handler.py:171-173
ReturnASR(r) ==
    /\ pc[r] = "asr_check"
    /\ Truthy(text[r][1])
    /\ ReturnFromWith(r, TranscriptResult(text[r][1], "asr", lang[r]))
    /\ UNCHANGED <<calls, listed>>

Handler(r, B) ==
    \/ HandlerMissingUrl(r, B)
    \/ HandlerEnter(r, B)
    \/ StartManual(r)
    \/ EndManual(r, B)
    \/ StartAuto(r)
    \/ EndAuto(r, B)
    \/ ScanSubs(r)
    \/ ReadCaptions(r)
    \/ ReturnSubtitles(r)
    \/ FallBackToASR(r)
    \/ StartAudio(r)
    \/ AudioRunFails(r, B)
    \/ AudioRunEnds(r, B)
    \/ AudioNoFile(r)
    \/ AudioFound(r)
    \/ StartASR(r)
    \/ ASRFails(r, B)
    \/ ASREnds(r, B)
    \/ ASREmpty(r)
    \/ ReturnASR(r)

(***************************************************************************)
(* The events and collaborator behaviours the specifications draw from     *)
(***************************************************************************)
SUBS_EN == <<"s", "u", "b", "s", ".", "e", "n", ".", "v", "t", "t">>
SUBS_DE == <<"s", "u", "b", "s", ".", "d", "e", ".", "v", "t", "t">>
CC_VTT == <<"c", "c", ".", "v", "t", "t">>
AUDIO_WEBM == <<"a", "u", "d", "i", "o", ".", "w", "e", "b", "m">>
AUDIO_M4A == <<"a", "u", "d", "i", "o", ".", "m", "4", "a">>

\* "WEBVTT\n\n1\n0-->1\nHi <b>yo</b>\n"
DocTalk ==
    WEBVTT \o <<NL, NL, "1", NL, "0", "-", "-", ">", "1", NL,
                "H", "i", " ", "<", "b", ">", "y", "o", "<", "/", "b", ">", NL>>
\* "WEBVTT\n\n1\n0-->1\n\n": signature, cue index and timing, no text
DocBare == WEBVTT \o <<NL, NL, "1", NL, "0", "-", "-", ">", "1", NL, NL>>
\* "WEBVTT\n\nja\n"
DocJa == WEBVTT \o <<NL, NL, "j", "a", NL>>

File(name, data) == [name |-> name, data |-> data]

Url == <<"u">>
Request(url, l) == <<[input |-> <<[youtubeUrl |-> url, lang |-> l]>>]>>

SeqsUpTo(S, n) == UNION {[1..k -> S] : k \in 0..n}

CaptionDeposits ==
    {{},
     {File(SUBS_EN, DocTalk)},
     {File(SUBS_EN, DocBare)},
     {File(SUBS_DE, DocJa)},
     {File(CC_VTT, DocTalk)}}

AudioDeposits ==
    {{}, {File(AUDIO_WEBM, <<>>)}, {File(AUDIO_WEBM, <<>>), File(AUDIO_M4A, <<>>)}}

\* one request: every kind of event, and collaborators that end in any way
\* having written any of the deposits, whether they succeed or fail
Rich ==
    [events |-> {<<>>,
                 <<[input |-> <<>>]>>,
                 Request(<<>>, <<>>),
                 Request(<< <<>> >>, << <<"d", "e">> >>),
                 Request(<< <<" ", "\t">> >>, <<>>),
                 Request(<<Url>>, <<>>),
                 Request(<< <<" ">> \o Url \o <<NL>> >>, << <<" ", "d", "e", " ">> >>),
                 Request(<<Url>>, << <<" ">> >>)},
     capStatus |-> {"ok", "nonzero", "timeout", "oserror"},
     manualWrites |-> CaptionDeposits,
     autoWrites |-> CaptionDeposits,
     audStatus |-> {"ok", "nonzero", "timeout", "oserror"},
     audWrites |-> AudioDeposits,
     audPartial |-> AudioDeposits,
     asrMayFail |-> TRUE,
     segments |-> SeqsUpTo({<<>>, <<" ">>, <<" ", "o", "k">>}, MaxSegs)]

\* concurrent requests: one sample of every branch of handler (no manual
\* captions; auto captions or none; audio or none; speech or none)
Small ==
    [events |-> {Request(<<>>, <<>>), Request(<<Url>>, <<>>)},
     capStatus |-> {"ok"},
     manualWrites |-> {{}},
     autoWrites |-> {{}, {File(SUBS_EN, DocTalk)}},
     audStatus |-> {"ok", "nonzero"},
     audWrites |-> {{}, {File(AUDIO_WEBM, <<>>)}},
     audPartial |-> {{}},
     asrMayFail |-> TRUE,
     segments |-> {<<>>, << <<" ", "o", "k">> >>}]

\* one invocation of handler
Next == Handler(1, Rich)

Spec == Init /\ [][Next]_vars

\* NumReq invocations of handler, interleaved step by step
NextConc == \E r \in Reqs : Handler(r, Small)

SpecConc == Init /\ [][NextConc]_vars

(***************************************************************************)
(* Caption documents: what yt-dlp may leave in a caption file              *)
(***************************************************************************)
MaxLines == 4

\* the kinds of line a caption file is made of: the signature, a comment,
\* a blank line, a cue index, a cue timing, a cue text with markup
LineKinds ==
    {WEBVTT,
     NOTE \o <<" ", "z">>,
     <<>>,
     <<"1">>,
     <<"0", "-", "-", ">", "1">>,
     <<"a", " ", "<", "b", ">", "c", "<", "/", "b", ">">>}

\* the documents of at most MaxLines lines, newline between the lines (a
\* last line that is blank gives the document its final newline)
Documents == {join(<<NL>>, ls) : ls \in SeqsUpTo(LineKinds, MaxLines)}

\* one request whose auto captions are any of the documents; one sample of
\* every other branch of handler
Captioned ==
    [events |-> {Request(<<>>, <<>>), Request(<<Url>>, <<>>)},
     capStatus |-> {"ok"},
     manualWrites |-> {{}},
     autoWrites |-> {{File(SUBS_EN, d)} : d \in Documents},
     audStatus |-> {"ok", "nonzero"},
     audWrites |-> {{}, {File(AUDIO_WEBM, <<>>)}},
     audPartial |-> {{}},
     asrMayFail |-> TRUE,
     segments |-> {<<>>, << <<" ", "o", "k">> >>}]

(***************************************************************************)
(* Caption files: what the two caption attempts may leave behind           *)
(***************************************************************************)
SUBS_JA == <<"s", "u", "b", "s", ".", "j", "a", ".", "v", "t", "t">>
CC_EN == <<"c", "c", ".", "e", "n", ".", "v", "t", "t">>

\* one request for "en" or "de" whose caption attempts end in any way, each
\* having written any of its files: several files may match the strict
\* pattern, or only the broad one, with or without the requested tag
CaptionFiles ==
    [events |-> {Request(<<>>, <<>>),
                 Request(<<Url>>, <<>>),
                 Request(<<Url>>, << <<"d", "e">> >>)},
     capStatus |-> {"ok", "nonzero", "timeout"},
     manualWrites |-> SUBSET {File(SUBS_DE, DocJa), File(CC_VTT, DocBare)},
     autoWrites |-> SUBSET {File(SUBS_EN, DocTalk), File(SUBS_JA, DocJa), File(CC_EN, DocJa)},
     audStatus |-> {"ok", "nonzero"},
     audWrites |-> {{}, {File(AUDIO_WEBM, <<>>)}},
     audPartial |-> {{}},
     asrMayFail |-> TRUE,
     segments |-> {<<>>, << <<" ", "o", "k">> >>}]

NextScan == Handler(1, CaptionFiles)

\* one invocation of handler on a video with caption files
SpecScan == Init /\ [][NextScan]_vars

(***************************************************************************)
(* Speech: what the ASR may return for one segment                         *)
(***************************************************************************)
MaxLen == 4

Chars == {" ", "\t", NL, "a", "b"}

\* the strings of at most MaxLen characters
Strings == SeqsUpTo(Chars, MaxLen)

\* the texts of the segments of a longer transcription: none, blank, a word,
\* a word and a space
Fragments == {<<>>, <<" ">>, <<"a">>, <<"b", " ">>}

\* one request whose audio is transcribed to one segment with any of the
\* strings as its text, or to at most MaxSegs segments with the fragments as
\* their texts; one sample of every other branch of handler
Spoken ==
    [events |-> {Request(<<>>, <<>>), Request(<<Url>>, <<>>)},
     capStatus |-> {"ok"},
     manualWrites |-> {{}},
     autoWrites |-> {{}, {File(SUBS_EN, DocTalk)}},
     audStatus |-> {"ok", "nonzero"},
     audWrites |-> {{}, {File(AUDIO_WEBM, <<>>)}},
     audPartial |-> {{}},
     asrMayFail |-> TRUE,
     segments |-> {<<x>> : x \in Strings} \cup SeqsUpTo(Fragments, MaxSegs)]

NextAsr == Handler(1, Spoken)

\* one invocation of handler on a video whose speech is transcribed
SpecAsr == Init /\ [][NextAsr]_vars

NextVtt == Handler(1, Captioned)

\* one invocation of handler on a video with captions
SpecVtt == Init /\ [][NextVtt]_vars

(***************************************************************************)
(* What a run did, read off the state                                      *)
(***************************************************************************)
Done(r) == pc[r] = "done"

\* the with block was entered: a working directory was created
Entered(r) == workdir[r] # <<>>

CallIdx(r) == 1..Len(calls[r])

\* collaborator op was invoked
Invoked(r, op) == \E i \in CallIdx(r) : calls[r][i].ev = "start" /\ calls[r][i].op = op

\* an invocation of op is over and did not succeed
Failed(r, op) ==
    \E i \in CallIdx(r) :
        calls[r][i].ev = "end" /\ calls[r][i].op = op /\ calls[r][i].status # "ok"

\* the last thing the collaborators did for r
LastCall(r) == calls[r][Len(calls[r])]

\* the event carries no URL: no event, no input object, no youtubeUrl, or a
\* youtubeUrl made of whitespace only
BlankUrl(ev) ==
    \/ ev = <<>>
    \/ ev[1].input = <<>>
    \/ ev[1].input[1].youtubeUrl = <<>>
    \/ \A k \in 1..Len(ev[1].input[1].youtubeUrl[1]) :
           IsSpace(ev[1].input[1].youtubeUrl[1][k])

IsTranscript(v) == DOMAIN v = {"transcript", "method", "lang"}
IsError(v) == DOMAIN v = {"error"}

\* the text the caption tier recovered: the local text, as long as the ASR
\* has not assigned it
CaptionTextOf(r) ==
    IF text[r] # <<>> /\ ~(\E i \in CallIdx(r) : calls[r][i].op = "asr" /\ calls[r][i].ev = "end" /\ calls[r][i].status = "ok")
    THEN text[r][1] ELSE <<>>

(***************************************************************************)
(* C1                                                                      *)
(***************************************************************************)
\* the outcomes C1 lists: caption and audio tools succeed, exit non-zero or
\* time out, the ASR returns its segments
ListedOutcomes(r) ==
    \A i \in CallIdx(r) : calls[r][i].status \in {"none", "ok", "nonzero", "timeout"}

\* C1: for a request with a non-blank URL, whatever the collaborators do,
\* handler ends with exactly one of a transcript result and an error result,
\* and no exception leaves it.
C1_ExactlyOneResult ==
    \A r \in Reqs :
        (Done(r) /\ ~BlankUrl(event[r]) /\ ListedOutcomes(r)) =>
            /\ raised[r] = <<>>
            /\ Len(ret[r]) = 1
            /\ (IsTranscript(ret[r][1]) \/ IsError(ret[r][1]))
            /\ ~(IsTranscript(ret[r][1]) /\ IsError(ret[r][1]))

(***************************************************************************)
(* C2                                                                      *)
(***************************************************************************)
\* C2: once the caption tier has recovered non-empty text, neither the audio
\* tool nor the ASR is invoked, and the result, when there is one, is that
\* text with method "subtitles".
C2_CaptionsSkipASR ==
    \A r \in Reqs :
        (vtt_path[r] # <<>> /\ Truthy(CaptionTextOf(r))) =>
            /\ ~Invoked(r, "audio")
            /\ ~Invoked(r, "asr")
            /\ raised[r] = <<>>
            /\ Done(r) => ret[r] = <<TranscriptResult(CaptionTextOf(r), "subtitles", lang[r])>>

C2_Witness ==
    \E r \in Reqs :
        /\ Done(r)
        /\ vtt_path[r] # <<>>
        /\ Truthy(CaptionTextOf(r))
        /\ ret[r] # <<>>
        /\ IsTranscript(ret[r][1])

(***************************************************************************)
(* C3                                                                      *)
(***************************************************************************)
\* C3: a run with a non-blank URL in which _download_subtitles returned no
\* file, or a file whose parsed text is empty, has invoked the audio tool by
\* the time it ends: a run that ends without invoking it returns the
\* non-empty caption text.
C3_FallbackReached ==
    \A r \in Reqs :
        (Done(r) /\ ~BlankUrl(event[r])) =>
            /\ (vtt_path[r] = <<>> \/ ~Truthy(CaptionTextOf(r))) => Invoked(r, "audio")
            /\ ~Invoked(r, "audio") =>
                  /\ vtt_path[r] # <<>>
                  /\ ret[r] = <<TranscriptResult(CaptionTextOf(r), "subtitles", lang[r])>>
                  /\ Truthy(ret[r][1].transcript)

\* a caption file was found, its text was empty, and the audio tool runs
C3_Witness ==
    \E r \in Reqs :
        /\ pc[r] = "audio_run"
        /\ vtt_path[r] # <<>>
        /\ text[r] = << <<>> >>

(***************************************************************************)
(* C4                                                                      *)
(***************************************************************************)
\* C4: a transcript result carries non-empty text, the text handler holds;
\* empty ASR text gives the error "ASR returned empty transcript".
C4_TranscriptNonEmpty ==
    \A r \in Reqs :
        /\ (ret[r] # <<>> /\ IsTranscript(ret[r][1])) =>
              /\ ret[r][1].transcript # <<>>
              /\ ret[r][1].method \in {"subtitles", "asr"}
              /\ text[r] = <<ret[r][1].transcript>>
        /\ (Done(r) /\ Invoked(r, "asr") /\ LastCall(r).status = "ok" /\ text[r] = << <<>> >>) =>
              ret[r] = <<ErrorResult(ASR_EMPTY)>>

\* a caption file without text, then an ASR without text: the error
C4_Witness ==
    \E r \in Reqs :
        /\ Done(r)
        /\ vtt_path[r] # <<>>
        /\ Invoked(r, "asr")
        /\ text[r] = << <<>> >>
        /\ ret[r] = <<ErrorResult(ASR_EMPTY)>>

(***************************************************************************)
(* C5                                                                      *)
(***************************************************************************)
\* C5: a request without URL (missing, empty, whitespace only, no input
\* object) gets the error naming the missing URL; no collaborator is invoked
\* and no working directory is created.
C5_MissingUrlRejected ==
    \A r \in Reqs :
        (pc[r] # "idle" /\ BlankUrl(event[r])) =>
            /\ Done(r)
            /\ ret[r] = <<ErrorResult(MISSING_URL)>>
            /\ raised[r] = <<>>
            /\ calls[r] = <<>>
            /\ listed[r] = <<>>
            /\ workdir[r] = <<>>

\* the request whose URL is whitespace only
C5_Witness ==
    \E r \in Reqs :
        /\ Done(r)
        /\ event[r] # <<>>
        /\ event[r][1].input # <<>>
        /\ event[r][1].input[1].youtubeUrl = << <<" ", "\t">> >>
        /\ ret[r] = <<ErrorResult(MISSING_URL)>>

(***************************************************************************)
(* C6                                                                      *)
(***************************************************************************)
\* no collaborator of r wrote a file that audio.* matches
NoAudioFile(r) ==
    \A i \in CallIdx(r) : \A n \in calls[r][i].wrote : ~Matches(n.name, AUDIO_PRE, <<>>)

\* C6: when the audio tool has run and left no audio file, the request ends
\* with an error result naming the audio-download failure, and the ASR was
\* not invoked.
C6_NoAudioIsErrorResult ==
    \A r \in Reqs :
        (Done(r) /\ Invoked(r, "audio") /\ LastCall(r).op = "audio"
            /\ LastCall(r).status = "ok" /\ NoAudioFile(r)) =>
            /\ ret[r] = <<ErrorResult(NO_AUDIO)>>
            /\ raised[r] = <<>>
            /\ ~Invoked(r, "asr")

(***************************************************************************)
(* C7                                                                      *)
(***************************************************************************)
\* what both readings of C7 share: a failed caption attempt surfaces
\* nothing, the auto attempt follows a failed manual attempt and the scan
\* follows a failed auto attempt
SoftFailure(r) ==
    /\ (calls[r] # <<>> /\ LastCall(r).ev = "end" /\ LastCall(r).op = "manual"
            /\ LastCall(r).status # "ok") =>
          (pc[r] = "auto" /\ ret[r] = <<>> /\ raised[r] = <<>>)
    /\ (calls[r] # <<>> /\ LastCall(r).ev = "end" /\ LastCall(r).op = "auto"
            /\ LastCall(r).status # "ok") =>
          /\ raised[r] = <<>>
          /\ ret[r] = <<>> \/ IsTranscript(ret[r][1])
          /\ pc[r] \in {"scan", "captions", "check", "audio", "done"}
          /\ pc[r] # "scan" => Len(listed[r]) = 1
    /\ (Done(r) /\ Failed(r, "manual")) => Invoked(r, "auto")
    /\ (Done(r) /\ (Failed(r, "manual") \/ Failed(r, "auto"))) => Len(listed[r]) >= 1

\* C7 as claimed: ... and when both attempts fail the pipeline proceeds to the
\* ASR tier.
C7_BothFailThenASR ==
    \A r \in Reqs :
        /\ SoftFailure(r)
        /\ (Done(r) /\ Failed(r, "manual") /\ Failed(r, "auto")) => Invoked(r, "audio")

\* C7 as amended: a failed caption attempt is not surfaced and does not abort
\* the fetch step; the auto attempt and the scan are still made; when both
\* fail the pipeline proceeds to the ASR tier, unless the scan found a
\* caption file with text, which is then returned as "subtitles".
C7_FailuresSwallowed ==
    \A r \in Reqs :
        /\ SoftFailure(r)
        /\ (Done(r) /\ Failed(r, "manual") /\ Failed(r, "auto")) =>
              \/ Invoked(r, "audio")
              \/ /\ vtt_path[r] # <<>>
                 /\ Truthy(CaptionTextOf(r))
                 /\ ret[r] = <<TranscriptResult(CaptionTextOf(r), "subtitles", lang[r])>>

\* both attempts failed, in different ways, and the audio tool runs
C7_Witness ==
    \E r \in Reqs :
        /\ pc[r] = "audio_run"
        /\ Len(calls[r]) = 5
        /\ calls[r][2].status = "timeout"
        /\ calls[r][4].status = "nonzero"

(***************************************************************************)
(* C8                                                                      *)
(***************************************************************************)
\* C8: once handler is over, by return or by exception, the working
\* directory it created and every file in it are gone.
C8_WorkdirReleased ==
    \A r \in Reqs :
        (Done(r) /\ Entered(r)) =>
            /\ workdir[r][1] \notin dirs
            /\ FilesIn(files, workdir[r][1]) = {}

\* an exception left handler after the collaborators had written files
C8_Witness ==
    \E r \in Reqs :
        /\ Done(r)
        /\ Entered(r)
        /\ raised[r] # <<>>
        /\ \E i \in CallIdx(r) : calls[r][i].op = "auto" /\ calls[r][i].wrote # {}
        /\ \E i \in CallIdx(r) : calls[r][i].op = "audio" /\ calls[r][i].wrote # {}

(***************************************************************************)
(* C9                                                                      *)
(***************************************************************************)
PIPELINE == <<"manual", "auto", "audio", "asr">>

\* every call is over before the next one starts, the calls come in the
\* order of PIPELINE, none is made twice, and handler goes on only when the
\* call it made is over
Sequential(r) ==
    /\ Len(calls[r]) <= 2 * Len(PIPELINE)
    /\ \A i \in CallIdx(r) :
        /\ calls[r][i].op = PIPELINE[(i + 1) \div 2]
        /\ calls[r][i].ev = IF i % 2 = 1 THEN "start" ELSE "end"
    /\ (Len(calls[r]) % 2 = 1) <=> pc[r] \in {"manual_run", "auto_run", "audio_run", "asr_run"}
    /\ Invoked(r, "asr") => Len(listed[r]) = 2

\* C9 as claimed: ... so per request the caption tool is invoked exactly twice
\* and the audio tool and the ASR at most once each.
C9_AlwaysTwoCaptionCalls ==
    \A r \in Reqs :
        /\ Sequential(r)
        /\ Done(r) => Len(calls[r]) \in {4, 6, 8}

\* C9 as amended: the same for every request that passes the URL check; a
\* request without URL makes no call at all.
C9_SequentialOnce ==
    \A r \in Reqs :
        /\ Sequential(r)
        /\ (Done(r) /\ Entered(r)) => Len(calls[r]) \in {4, 6, 8}
        /\ (Done(r) /\ ~Entered(r)) => calls[r] = <<>>

\* a finished run through all four calls
C9_Witness ==
    \E r \in Reqs :
        /\ Done(r)
        /\ Len(calls[r]) = 8
        /\ ret[r] # <<>>
        /\ IsTranscript(ret[r][1])

(***************************************************************************)
(* C10                                                                     *)
(***************************************************************************)
\* the files r's own collaborators have left in its directory d
RECURSIVE OwnFiles(_, _)
OwnFiles(cs, d) ==
    IF cs = <<>> THEN {}
    ELSE WriteFiles(OwnFiles(SubSeq(cs, 1, Len(cs) - 1), d), d, cs[Len(cs)].wrote)

Outcome(v, e) == [ret |-> v, raised |-> e]

\* the outcome of handler run alone in directory d on event ev, with the
\* collaborators behaving as recorded in cs and the globs listing as in ls;
\* no outcome where cs and ls are not a record of such a run
Alone(ev, d, cs, ls) ==
    IF UrlOf(ev) = <<>> THEN Outcome(<<ErrorResult(MISSING_URL)>>, <<>>)
    ELSE IF Len(cs) < 4 \/ Len(ls) < 1 \/ ls[1] \notin Listings(FindVtts(OwnFiles(SubSeq(cs, 1, 4), d), d))
    THEN Outcome(<<>>, <<>>)
    ELSE LET fs1 == OwnFiles(SubSeq(cs, 1, 4), d)
             path == SelectVtt(ls[1], LangOf(ev))
             captions == IF path = <<>> THEN <<>> ELSE _parse_vtt_to_text(ReadFile(fs1, path[1]))
         IN  IF path # <<>> /\ Truthy(captions)
             THEN Outcome(<<TranscriptResult(captions, "subtitles", LangOf(ev))>>, <<>>)
             ELSE IF Len(cs) < 6 THEN Outcome(<<>>, <<>>)
             ELSE IF cs[6].status # "ok" THEN Outcome(<<>>, <<RunRaises(cs[6].status)>>)
             ELSE IF FindAudio(OwnFiles(SubSeq(cs, 1, 6), d), d) = {}
                  THEN Outcome(<<>>, <<[exc |-> "RuntimeError", msg |-> NO_AUDIO]>>)
             ELSE IF Len(cs) < 8 THEN Outcome(<<>>, <<>>)
             ELSE IF cs[8].status # "ok" THEN Outcome(<<>>, <<[exc |-> "Exception", msg |-> ""]>>)
             ELSE IF Truthy(_transcribe_with_faster_whisper(cs[8].segs))
                  THEN Outcome(<<TranscriptResult(_transcribe_with_faster_whisper(cs[8].segs),
                                                  "asr", LangOf(ev))>>, <<>>)
             ELSE Outcome(<<ErrorResult(ASR_EMPTY)>>, <<>>)

\* r is inside its with block
Active(r) == Entered(r) /\ ~Done(r)

\* C10: concurrent requests are independent under every interleaving: the
\* working directories of two running requests differ, a request's working
\* directory exists and holds exactly the files its own collaborators left
\* there (so its scans see no file of another request), and its outcome is
\* the outcome of the same run alone.
C10_Independent ==
    \A r \in Reqs :
        /\ \A q \in Reqs \ {r} : (Active(r) /\ Active(q)) => workdir[r] # workdir[q]
        /\ Active(r) =>
              /\ workdir[r][1] \in dirs
              /\ FilesIn(files, workdir[r][1]) = OwnFiles(calls[r], workdir[r][1])
        /\ Done(r) =>
              Outcome(ret[r], raised[r])
                  = Alone(event[r], IF Entered(r) THEN workdir[r][1] ELSE <<>>, calls[r], listed[r])

\* one request reads its captions while another one, with its audio in its
\* own directory, waits for the ASR
C10_Witness ==
    \E r \in Reqs : \E q \in Reqs \ {r} :
        /\ pc[r] = "check"
        /\ Truthy(text[r][1])
        /\ pc[q] = "asr_run"
        /\ FilesIn(files, workdir[r][1]) # {}
        /\ FilesIn(files, workdir[q][1]) # {}

(***************************************************************************)
(* Caption documents and text, described without the parser                *)
(***************************************************************************)
\* the words of s: its maximal runs of characters that are not whitespace
RECURSIVE Words(_)
Words(s) ==
    IF s = <<>> THEN <<>>
    ELSE IF IsSpace(s[1]) THEN Words(Tail(s))
    ELSE LET stops == {k \in 1..Len(s) : IsSpace(s[k])}
             end == IF stops = {} THEN Len(s) + 1
                    ELSE CHOOSE k \in stops : \A j \in stops : k <= j
         IN  <<SubSeq(s, 1, end - 1)>> \o Words(From(s, end))

\* the lines of a document
LinesOf(doc) == split(ReplaceCRLF(doc))

IsBlankLine(l) == \A k \in 1..Len(l) : IsSpace(l[k])

\* line k lies in the block that line j opens: no blank line from j up to k
SameBlock(L, j, k) == j <= k /\ \A i \in j..(k - 1) : ~IsBlankLine(L[i])

\* the header block: the signature line and what follows it up to the first
\* blank line
InHeader(L, k) == StartsWithAt(L[1], 1, WEBVTT) /\ SameBlock(L, 1, k)

\* a comment block: a line that starts with NOTE and what follows it up to
\* the next blank line
InComment(L, k) == \E j \in 1..k : StartsWithAt(L[j], 1, NOTE) /\ SameBlock(L, j, k)

IsTiming(l) == \E i \in 1..Len(l) : StartsWithAt(l, i, ARROW)
IsIndex(l) == l # <<>> /\ \A k \in 1..Len(l) : IsDigit(l[k])

\* a line that carries transcript text
Survives(L, k) ==
    /\ ~InHeader(L, k)
    /\ ~InComment(L, k)
    /\ ~IsBlankLine(L[k])
    /\ ~IsTiming(L[k])
    /\ ~IsIndex(strip(L[k]))

\* l without its markup tags: "<", what follows it, and the next ">"
RECURSIVE Untagged(_)
Untagged(l) ==
    IF l = <<>> THEN <<>>
    ELSE IF l[1] = "<" /\ \E k \in 2..Len(l) : l[k] = ">"
         THEN Untagged(From(l, 1 + CHOOSE k \in 2..Len(l) : l[k] = ">" /\ \A j \in 2..(k - 1) : l[j] # ">"))
         ELSE <<l[1]>> \o Untagged(Tail(l))

\* the words of the surviving lines from line k on, tags removed
RECURSIVE SurvivingWords(_, _)
SurvivingWords(L, k) ==
    IF k > Len(L) THEN <<>>
    ELSE (IF Survives(L, k) THEN Words(Untagged(L[k])) ELSE <<>>) \o SurvivingWords(L, k + 1)

\* the text of a document: the surviving lines' texts joined by single spaces
TextOf(doc) == join(<<SP>>, SurvivingWords(LinesOf(doc), 1))

\* the document handler has read
DocRead(r) == ReadFile(files, vtt_path[r][1])

\* handler holds the parser's output for the document it has read
Parsed(r) == pc[r] = "check"

(***************************************************************************)
(* C11                                                                     *)
(***************************************************************************)
\* C11: for every caption document the parser returns the texts of the
\* surviving lines, in order, joined by single spaces, tags removed; a line
\* survives iff it lies outside the header block and every comment block, is
\* not blank, holds no "-->" and is not made of digits only.
C11_ParserKeepsSurvivors ==
    \A r \in Reqs : Parsed(r) => text[r][1] = TextOf(DocRead(r))

(***************************************************************************)
(* C12                                                                     *)
(***************************************************************************)
\* the document of the caption file _download_subtitles returned, as the
\* caption attempts left it (it is known after the directory is gone, too)
SelectedDoc(r) ==
    ReadFile(OwnFiles(SubSeq(calls[r], 1, 4), workdir[r][1]), vtt_path[r][1])

\* a document made of a header block, timing lines, index lines and blank
\* lines only
HeaderOnly(doc) ==
    LET L == LinesOf(doc)
    IN  \A k \in 1..Len(L) :
            \/ InHeader(L, k)
            \/ IsBlankLine(L[k])
            \/ IsTiming(L[k])
            \/ IsIndex(strip(L[k]))

\* C12: for a caption document made only of a header block, timing lines,
\* index lines and blank lines the parser returns the empty string, and
\* handler goes on to the audio and the ASR instead of returning a
\* "subtitles" result.
C12_HeaderOnlyIsUnusable ==
    \A r \in Reqs :
        (vtt_path[r] # <<>> /\ HeaderOnly(SelectedDoc(r))) =>
            /\ Parsed(r) => text[r][1] = <<>>
            /\ (ret[r] # <<>> /\ IsTranscript(ret[r][1])) => ret[r][1].method = "asr"
            /\ Done(r) => Invoked(r, "audio")

(***************************************************************************)
(* C13                                                                     *)
(***************************************************************************)
\* the ASR has returned one segment and handler holds _clean_text of its text
Cleaned(r) == pc[r] = "asr_check" /\ Len(LastCall(r).segs) = 1

\* the string _clean_text was applied to
CleanArg(r) == LastCall(r).segs[1]

\* y is x normalized: no whitespace at its ends, every whitespace character
\* a single space between two characters that are not whitespace, and the
\* same runs of other characters as x, in the same order
Normalized(x, y) ==
    /\ y # <<>> => (~IsSpace(y[1]) /\ ~IsSpace(y[Len(y)]))
    /\ \A k \in 1..Len(y) : IsSpace(y[k]) => (y[k] = SP /\ ~IsSpace(y[k + 1]))
    /\ Words(y) = Words(x)

\* C13: for every string x, _clean_text(x) has no leading or trailing
\* whitespace, has every maximal run of whitespace of x collapsed to one
\* space with the other characters unchanged and in order, and is a fixed
\* point of _clean_text.
C13_CleanTextNormalizes ==
    \A r \in Reqs :
        Cleaned(r) =>
            /\ Normalized(CleanArg(r), text[r][1])
            /\ text[r][1] = join(<<SP>>, Words(CleanArg(r)))
            /\ _clean_text(text[r][1]) = text[r][1]

\* "a \nb" was normalized to "a b"
C13_Witness ==
    \E r \in Reqs :
        /\ Cleaned(r)
        /\ CleanArg(r) = <<"a", " ", NL, "b">>
        /\ text[r][1] = <<"a", " ", "b">>

(***************************************************************************)
(* C14                                                                     *)
(***************************************************************************)
\* the characters of the paths, in the order of their codes
Alphabet ==
    <<".", "/", "a", "b", "c", "d", "e", "f", "g", "h", "i", "j", "k", "l", "m",
      "n", "o", "p", "q", "r", "s", "t", "u", "v", "w", "x", "y", "z">>

Code(c) == CHOOSE i \in 1..Len(Alphabet) : Alphabet[i] = c

\* p < q in lexicographic order
RECURSIVE Before(_, _)
Before(p, q) ==
    IF q = <<>> THEN FALSE
    ELSE IF p = <<>> THEN TRUE
    ELSE IF p[1] = q[1] THEN Before(Tail(p), Tail(q))
    ELSE Code(p[1]) < Code(q[1])

\* sorted(S)[0]
FirstSorted(S) == CHOOSE p \in S : \A q \in S \ {p} : Before(p, q)

\* the file name of a path: what follows its last "/"
RECURSIVE BaseName(_)
BaseName(p) ==
    IF \E k \in 1..Len(p) : p[k] = "/"
    THEN BaseName(From(p, 1 + CHOOSE k \in 1..Len(p) : p[k] = "/"))
    ELSE p

\* the file name embeds the language tag: ".<lang>."
Tagged(p, l) ==
    \E i \in 1..Len(BaseName(p)) : StartsWithAt(BaseName(p), i, <<".">> \o l \o <<".">>)

\* _download_subtitles has returned
ScanOver(r) == listed[r] # <<>>

\* the candidates its scan found
Candidates(r) == {listed[r][1][k] : k \in 1..Len(listed[r][1])}

\* C14: when no candidate caption file embeds the requested language tag,
\* the file returned is the first candidate in sorted order, so the same set
\* of files gives the same file however the filesystem lists it.
C14_FirstInSortedOrder ==
    \A r \in Reqs :
        (ScanOver(r) /\ Candidates(r) # {} /\ \A p \in Candidates(r) : ~Tagged(p, lang[r])) =>
            /\ vtt_path[r] = <<FirstSorted(Candidates(r))>>
            /\ \A vtts \in Listings(Candidates(r)) : SelectVtt(vtts, lang[r]) = vtt_path[r]

(***************************************************************************)
(* C15                                                                     *)
(***************************************************************************)
\* C15: when at least one of the candidate caption files has a name that
\* embeds the requested language tag, the file returned is a candidate whose
\* name embeds that tag, never a candidate for another language.
C15_PrefersRequestedLanguage ==
    \A r \in Reqs :
        (ScanOver(r) /\ \E p \in Candidates(r) : Tagged(p, lang[r])) =>
            /\ vtt_path[r] # <<>>
            /\ vtt_path[r][1] \in Candidates(r)
            /\ Tagged(vtt_path[r][1], lang[r])

\* three candidates, a file for another language listed first, and the file
\* for the requested language returned
C15_Witness ==
    \E r \in Reqs :
        /\ ScanOver(r)
        /\ Len(listed[r][1]) = 3
        /\ ~Tagged(listed[r][1][1], lang[r])
        /\ vtt_path[r] # <<>>
        /\ Tagged(vtt_path[r][1], lang[r])

(***************************************************************************)
(* C16                                                                     *)
(***************************************************************************)
\* the caption-formatted files the working directory holds once both caption
\* attempts are over: what the two of them wrote, whatever their status
VttFiles(r) ==
    {f \in OwnFiles(SubSeq(calls[r], 1, 4), workdir[r][1]) : EndsWith(f.name, VTT_SUF)}

\* those named subs.<language>.vtt
StrictFiles(r) ==
    {f \in VttFiles(r) : \E mid \in 0..Len(f.name) :
        /\ Len(f.name) = Len(SUBS_PRE) + mid + Len(VTT_SUF)
        /\ SubSeq(f.name, 1, Len(SUBS_PRE)) = SUBS_PRE}

PathsOf(fs) == {PathJoin(f.dir, f.name) : f \in fs}

\* C16: _download_subtitles returns None iff the working directory holds no
\* .vtt file after both attempts; the candidates are the files matching
\* subs.<language>.vtt when there are any and all .vtt files only otherwise;
\* a file one attempt wrote is found also when an attempt failed or timed out.
C16_NoneIffNoVtt ==
    \A r \in Reqs :
        ScanOver(r) =>
            /\ vtt_path[r] = <<>> <=> VttFiles(r) = {}
            /\ vtt_path[r] # <<>> => vtt_path[r][1] \in Candidates(r)
            /\ Candidates(r) = IF StrictFiles(r) # {} THEN PathsOf(StrictFiles(r))
                               ELSE PathsOf(VttFiles(r))
            /\ ((Failed(r, "manual") \/ Failed(r, "auto")) /\ VttFiles(r) # {}) =>
                  (vtt_path[r] # <<>> /\ vtt_path[r][1] \in PathsOf(VttFiles(r)))

\* the manual attempt timed out having written cc.vtt, the auto attempt
\* wrote nothing, and the broadened scan returned cc.vtt
C16_Witness ==
    \E r \in Reqs :
        /\ ScanOver(r)
        /\ calls[r][2].status = "timeout"
        /\ calls[r][2].wrote = {File(CC_VTT, DocBare)}
        /\ calls[r][4].wrote = {}
        /\ StrictFiles(r) = {}
        /\ vtt_path[r] = <<PathJoin(workdir[r][1], CC_VTT)>>

(***************************************************************************)
(* C17                                                                     *)
(***************************************************************************)
WordSet(l) == {Words(l)[i] : i \in 1..Len(Words(l))}

\* the words of the lines of the document's comment blocks
CommentWords(doc) ==
    LET L == LinesOf(doc)
    IN  UNION {WordSet(L[k]) : k \in {j \in 1..Len(L) : InComment(L, j)}}

\* the words of its other lines
OtherWords(doc) ==
    LET L == LinesOf(doc)
    IN  UNION {WordSet(L[k]) : k \in {j \in 1..Len(L) : ~InComment(L, j)}}

\* C17: every comment block, a line starting with NOTE through the next
\* blank line, is removed wherever it stands in the document, the last block
\* included: no text of a comment block is in the parser's output (for a
\* document whose comments share no word with its other lines, no word of a
\* comment is a word of the output).
C17_CommentsRemoved ==
    \A r \in Reqs :
        (Parsed(r) /\ CommentWords(DocRead(r)) \cap OtherWords(DocRead(r)) = {}) =>
            WordSet(text[r][1]) \cap CommentWords(DocRead(r)) = {}

(***************************************************************************)
(* C18                                                                     *)
(***************************************************************************)
\* the ASR has returned its segments
Transcribed(r) ==
    /\ pc[r] \in {"asr_check", "done"}
    /\ calls[r] # <<>>
    /\ LastCall(r).op = "asr"
    /\ LastCall(r).status = "ok"

\* the words of the fragments, in the order of the fragments
RECURSIVE FragmentWords(_)
FragmentWords(segs) ==
    IF segs = <<>> THEN <<>> ELSE Words(Head(segs)) \o FragmentWords(Tail(segs))

\* C18: on the ASR path the transcript is the normalization of the segments'
\* texts joined by single spaces in the engine's order, empty fragments
\* skipped: the words of the fragments, in order, one space between them;
\* when every fragment is empty or blank the request ends with the error
\* "ASR returned empty transcript" and no transcript.
C18_ASRTranscript ==
    \A r \in Reqs :
        Transcribed(r) =>
            /\ text[r][1] = join(<<SP>>, FragmentWords(LastCall(r).segs))
            /\ (Done(r) /\ FragmentWords(LastCall(r).segs) # <<>>) =>
                  ret[r] = <<TranscriptResult(join(<<SP>>, FragmentWords(LastCall(r).segs)),
                                              "asr", lang[r])>>
            /\ (Done(r) /\ FragmentWords(LastCall(r).segs) = <<>>) =>
                  (ret[r] = <<ErrorResult(ASR_EMPTY)>> /\ raised[r] = <<>>)

\* the segments "b " and "a" gave the transcript "b a"
C18_Witness ==
    \E r \in Reqs :
        /\ Done(r)
        /\ Transcribed(r)
        /\ LastCall(r).segs = << <<"b", " ">>, <<"a">> >>
        /\ ret[r] = <<TranscriptResult(<<"b", " ", "a">>, "asr", lang[r])>>

(***************************************************************************)
(* C19                                                                     *)
(***************************************************************************)
\* h without the whitespace at its ends (h holds a character that is none)
Trimmed(h) ==
    LET inked == {k \in 1..Len(h) : ~IsSpace(h[k])}
        first == CHOOSE k \in inked : \A j \in inked : k <= j
        last == CHOOSE k \in inked : \A j \in inked : j <= k
    IN  SubSeq(h, first, last)

\* the language the request asks for: its hint, trimmed; "en" when the hint
\* is missing or blank
RequestedLang(ev) ==
    IF ev = <<>> \/ ev[1].input = <<>> \/ ev[1].input[1].lang = <<>>
        \/ IsBlankLine(ev[1].input[1].lang[1])
    THEN EN
    ELSE Trimmed(ev[1].input[1].lang[1])

\* C19: the lang field of every transcript result, by captions or by ASR, is
\* the request's language hint, trimmed, "en" when missing or blank; it does
\* not follow the caption file selected, so it is the requested language
\* also when _download_subtitles returned a file of another language.
C19_LangIsRequested ==
    \A r \in Reqs :
        (ret[r] # <<>> /\ IsTranscript(ret[r][1])) =>
            /\ ret[r][1].lang = RequestedLang(event[r])
            /\ ret[r][1].lang # <<>>

\* a request without hint answered from subs.de.vtt, with lang "en"
C19_Witness ==
    \E r \in Reqs :
        /\ Done(r)
        /\ Entered(r)
        /\ event[r][1].input[1].lang = <<>>
        /\ vtt_path[r] = <<PathJoin(workdir[r][1], SUBS_DE)>>
        /\ ret[r] # <<>>
        /\ IsTranscript(ret[r][1])
        /\ ret[r][1].method = "subtitles"
        /\ ret[r][1].lang = EN

====
